---------------------------- MODULE Spec2Model ----------------------------
(***************************************************************************)
(* The credential and token lifecycle of src/routes/accounts.py:           *)
(* register_user, activate_account, request_password_reset_token,          *)
(* reset_password, AccountsRouter.login, .refresh_token and .logout.       *)
(*                                                                         *)
(* Every request runs in its own AsyncSession (Depends(get_db)).  A        *)
(* handler is cut at its `await db...` points: a SELECT reads the          *)
(* committed tables, a commit flushes the session's pending INSERT,        *)
(* UPDATE and DELETE statements in one transaction.  Between two awaits of *)
(* one request any other request may run, and nothing in the handlers      *)
(* locks a row (no with_for_update), so a row object held by a session is  *)
(* a snapshot.  session.delete(obj) emits DELETE .. WHERE pk = obj.pk; a   *)
(* DELETE that matches no row is not an error.  A flush emits the          *)
(* session's INSERTs before its DELETEs, and an INSERT that breaks a       *)
(* unique constraint fails the commit with IntegrityError, which no        *)
(* handler catches.                                                        *)
(***************************************************************************)
EXTENDS Integers, FiniteSets, Sequences, Bags, TLC

(* ------------------------------ bounds -------------------------------- *)
\* concurrent requests in flight
NumCalls == 2
\* uuid4 values (activation and reset tokens) drawn in one behaviour
MaxTokens == 4
\* refresh token rows inserted in one behaviour
MaxRefreshRows == 3
\* the clock runs 0..MaxTime
MaxTime == 2
\* background e-mail tasks followed to their end in one behaviour
MaxSends == 1

Calls == 1..NumCalls
Emails == {"alice@example.com", "bob@example.com"}
\* an address nobody registers
Unregistered == "carol@example.com"
\* passwords offered at registration, at reset, and at login
RegisterPasswords == {"Str0ng!Pass", "weak"}
NewPasswords == {"N3w!Passw0rd", "weak"}
LoginPasswords == {"Str0ng!Pass", "N3w!Passw0rd"}

(* ----------------------- collaborators not in src --------------------- *)
\* lifetime of a token row (the expires_at default of the token models)
TokenTTL == 1
\* lifetime of a refresh token and of its row, longer than a clock step so
\* that a session can be rotated at a later clock reading than its sign-in
RefreshTTL == 2

\* PasswordManager.hash_password / verify_password
hash_password(pw) == <<"hash", pw>>
verify_password(pw, hashed) == hashed = hash_password(pw)

\* validate_password_strength: raises for a password outside the policy
validate_password_strength(pw) == pw # "weak"

\* str(user.id) in the token payload, and the coercion of the bound
\* parameter back to the integer column it is compared with
str(n) == <<"str", n>>
int(s) == s[2]

\* jwt_manager.create_access_token / create_refresh_token: the signed form of
\* the claims, the issue time and the expiry.  Nothing else goes in, so the
\* same claims signed at the same clock reading give the same token.
NoBearer == [typ |-> "none", sub |-> str(0), iat |-> 0, exp |-> 0]
create_access_token(uid, t) ==
    [typ |-> "access", sub |-> str(uid), iat |-> t, exp |-> t + TokenTTL]
create_refresh_token(uid, t) ==
    [typ |-> "refresh", sub |-> str(uid), iat |-> t, exp |-> t + RefreshTTL]

(* ------------------------------ results ------------------------------- *)
OK == "OK"
TokenExpiredError == "TokenExpiredError"
IncorrectCredentialsError == "IncorrectCredentialsError"
InactiveUserError == "InactiveUserError"
TokenValidationException == "TokenValidationException"
DuplicateEmail == "DuplicateEmail"
WeakPassword == "WeakPassword"
HTTP_404_NOT_FOUND == "HTTP_404_NOT_FOUND"
IntegrityError == "IntegrityError"
TokenTypeMismatch == "TokenTypeMismatch"
\* what an `await db.commit()` raises when the store fails
SQLAlchemyError == "SQLAlchemyError"

\* (mutant) decoding without the type discriminator
decode_token_AnyType(bearer, t, expected_type) ==
    IF t > bearer.exp THEN TokenExpiredError ELSE OK

\* jwt_manager.decode_token: the signature holds for every token that was
\* handed out; a token past its signed expiry is refused, and so is one of
\* the other type.  OK stands for the payload being returned.
decode_token(bearer, t, expected_type) ==
    IF t > bearer.exp THEN TokenExpiredError
    ELSE IF bearer.typ # expected_type THEN TokenTypeMismatch
    ELSE OK

MsgResetGeneric == "If a user with that email exists, a reset link has been sent."
MsgResetSent == "Password reset link sent successfully."
MsgResetDone == "Password has been reset successfully."
MsgLogout == "Logged out successfully."

(* ------------------------------- state -------------------------------- *)
VARIABLES
    users,                  \* UserModel rows
    activation_tokens,      \* ActivationTokenModel rows
    password_reset_tokens,  \* PasswordResetTokenModel rows
    refresh_tokens,         \* RefreshTokenModel rows
    background_tasks,       \* bag of e-mails handed to BackgroundTasks
    calls,                  \* per request: handler, position, locals, response
    now,                    \* datetime.utcnow()
    next_user_id,           \* the users.id sequence
    next_token,             \* next fresh uuid4 value
    next_refresh_id,        \* the refresh_tokens.id sequence
    handed_out,             \* bearer tokens returned to callers
    consumed,               \* observer: per kind, the bag of token values whose
                            \* consumption was committed for a caller
    sent                    \* bag of background tasks that ran, with outcome

vars == <<users, activation_tokens, password_reset_tokens, refresh_tokens,
          background_tasks, calls, now, next_user_id, next_token, next_refresh_id,
          handed_out, consumed, sent>>

store == <<users, activation_tokens, password_reset_tokens, refresh_tokens>>

NoToken == 0
NoUser == [id |-> 0, email |-> "", hashed_password |-> hash_password(""),
           is_active |-> FALSE]
NoRow == [token |-> NoToken, user_id |-> 0, expires_at |-> 0]
NoRefreshRow == [id |-> 0, token |-> NoBearer, user_id |-> 0, expires_at |-> 0]

Idle == [op |-> "idle", pc |-> "idle", email |-> "", password |-> "",
         token |-> NoToken, bearer |-> NoBearer, user |-> NoUser,
         row |-> NoRow, rrow |-> NoRefreshRow,
         new |-> NoToken, access |-> NoBearer, refresh |-> NoBearer,
         result |-> "", message |-> "", mark |-> 0, wrote |-> FALSE]

(* ------------------------- record store access ------------------------ *)
\* (mutant) the user lookup without its e-mail filter
UserByEmail_Any(email) ==
    IF users # {} THEN CHOOSE u \in users : TRUE ELSE NoUser

\* db.scalar(select(UserModel).where(UserModel.email == email))
UserByEmail(email) ==
    IF \E u \in users : u.email = email
    THEN CHOOSE u \in users : u.email = email
    ELSE NoUser

\* db.scalar(select(UserModel).where(UserModel.id == id))
UserById(id) ==
    IF \E u \in users : u.id = id
    THEN CHOOSE u \in users : u.id = id
    ELSE NoUser

\* (mutant) the lookup without its expiry filter
ValidToken_NoExpiry(table, value, t) ==
    IF \E r \in table : r.token = value
    THEN CHOOSE r \in table : r.token = value
    ELSE NoRow

\* select(TokenModel).where(token == value, expires_at > utcnow())
ValidToken(table, value, t) ==
    IF \E r \in table : r.token = value /\ r.expires_at > t
    THEN CHOOSE r \in table : r.token = value /\ r.expires_at > t
    ELSE NoRow

\* select(RefreshTokenModel).where(token == value, user_id == sub,
\*                                 expires_at > utcnow())
ValidRefresh(table, value, uid, t) ==
    IF \E r \in table : r.token = value /\ r.user_id = uid /\ r.expires_at > t
    THEN CHOOSE r \in table : r.token = value /\ r.user_id = uid /\ r.expires_at > t
    ELSE NoRefreshRow

\* (mutant) the logout lookup with an expiry filter
AnyRefresh_Unexpired(table, value, uid) == ValidRefresh(table, value, uid, now)

\* select(RefreshTokenModel).where(token == value, user_id == sub)
AnyRefresh(table, value, uid) ==
    IF \E r \in table : r.token = value /\ r.user_id = uid
    THEN CHOOSE r \in table : r.token = value /\ r.user_id = uid
    ELSE NoRefreshRow

\* (mutant) the row is never deleted
DeleteObject_Keep(table, obj) == table

\* db.delete(obj) flushed at commit: DELETE WHERE pk = obj.pk
DeleteObject(table, obj) == table \ {obj}

\* (mutant) the clean-up deletes nothing
DeleteByUser_None(table, uid) == table

\* table.delete().where(user_id == uid)
DeleteByUser(table, uid) == {r \in table : r.user_id # uid}

\* TokenModel(token=value, user_id=uid) with its default expires_at
NewTokenRow(value, uid, t) ==
    [token |-> value, user_id |-> uid, expires_at |-> t + TokenTTL]

\* RefreshTokenModel.create(token=value, user_id=uid), its id from the sequence
NewRefreshRow(id, value, uid, t) ==
    [id |-> id, token |-> value, user_id |-> uid, expires_at |-> t + RefreshTTL]

\* the unique constraint on a token column, checked when the INSERT is
\* flushed.  A flush emits its INSERTs before its DELETEs, so a row the same
\* transaction deletes still counts.
TokenTaken(table, value) == \E r \in table : r.token = value

\* (mutant) the flag is left as it is
SetActive_None(table, uid) == table

\* UPDATE users SET is_active = true WHERE id = uid
SetActive(table, uid) ==
    {IF u.id = uid THEN [u EXCEPT !.is_active = TRUE] ELSE u : u \in table}

\* (mutant) the update writes the whole row back, the flag at its default
SetPassword_WholeRow(table, uid, h) ==
    {IF u.id = uid THEN [u EXCEPT !.hashed_password = h, !.is_active = FALSE]
     ELSE u : u \in table}

\* UPDATE users SET hashed_password = h WHERE id = uid
SetPassword(table, uid, h) ==
    {IF u.id = uid THEN [u EXCEPT !.hashed_password = h] ELSE u : u \in table}

\* the unique constraint on users.email, checked when the INSERT is flushed
EmailTaken(table, email) == \E u \in table : u.email = email

\* validate_email_is_unique: a SELECT by e-mail; raises if a row comes back
validate_email_is_unique(table, email) == ~\E u \in table : u.email = email

\* background_tasks.add_task(email_sender.send_..., user.email, link)
Mail(kind, email, link) == [kind |-> kind, email |-> email, link |-> link]
add_task(tasks, kind, email, link) == tasks (+) SetToBag({Mail(kind, email, link)})

\* requests that will still draw a fresh uuid4 value, or insert a refresh row
Issuing == {c \in Calls : calls[c].pc \in
    {"register_commit_user", "register_commit_token", "reset_request_delete",
     "reset_request_insert"}}
Signing == {c \in Calls : calls[c].pc \in
    {"login_commit", "refresh_user", "refresh_commit"}}
Room == next_token + Cardinality(Issuing) <= MaxTokens
RoomRefresh == next_refresh_id + Cardinality(Signing) <= MaxRefreshRows

\* token values a caller can present: an issued one, or one never issued
Presentable == 0..(next_token - 1)

\* bearer tokens a caller can present: only signed ones that were handed out
PresentableBearer == handed_out

\* return / raise: the response is fixed, the session and its objects are gone
Respond(call, result, message) ==
    [call EXCEPT !.pc = "done", !.result = result, !.message = message,
                 !.user = NoUser, !.row = NoRow, !.rrow = NoRefreshRow]

Consume(kind, value) == [consumed EXCEPT ![kind] = @ (+) SetToBag({value})]

(* ------------------------------- Init --------------------------------- *)
Init ==
    /\ users = {}
    /\ activation_tokens = {}
    /\ password_reset_tokens = {}
    /\ refresh_tokens = {}
    /\ background_tasks = EmptyBag
    /\ calls = [c \in Calls |-> Idle]
    /\ now = 0
    /\ next_user_id = 1
    /\ next_token = 1
    /\ next_refresh_id = 1
    /\ handed_out = {}
    /\ sent = EmptyBag
    /\ consumed = [k \in {"activation", "reset", "refresh", "logout"} |-> EmptyBag]

(* --------------------------- register_user ---------------------------- *)
\* lines 70-86: validate_email_is_unique, validate_password_strength, build the user
register_user(c) ==
    /\ calls[c].pc = "idle"
    /\ Room
    /\ \E email \in Emails, pw \in RegisterPasswords :
        LET call == [Idle EXCEPT !.op = "register_user", !.email = email,
                                 !.password = pw]
        IN  calls' = [calls EXCEPT ![c] =
                IF ~validate_email_is_unique(users, email)
                THEN Respond(call, DuplicateEmail, "")
                ELSE IF ~validate_password_strength(pw)
                THEN Respond(call, WeakPassword, "")
                ELSE [call EXCEPT !.pc = "register_commit_user"]]
    /\ UNCHANGED <<users, activation_tokens, password_reset_tokens,
                   refresh_tokens, background_tasks, now, next_user_id,
                   next_token, next_refresh_id, handed_out, consumed, sent>>

\* lines 87-89: db.add(user); commit; refresh
register_commit_user(c) ==
    /\ calls[c].pc = "register_commit_user"
    /\ IF EmailTaken(users, calls[c].email)
       THEN /\ calls' = [calls EXCEPT ![c] = Respond(@, IntegrityError, "")]
            /\ UNCHANGED <<users, next_user_id>>
       ELSE LET user == [id |-> next_user_id, email |-> calls[c].email,
                         hashed_password |-> hash_password(calls[c].password),
                         is_active |-> FALSE]
            IN  /\ users' = users \cup {user}
                /\ next_user_id' = next_user_id + 1
                /\ calls' = [calls EXCEPT ![c].pc = "register_commit_token",
                                          ![c].user = user,
                                          ![c].wrote = TRUE]
    /\ UNCHANGED <<activation_tokens, password_reset_tokens, refresh_tokens,
                   background_tasks, now, next_token, next_refresh_id,
                   handed_out, consumed, sent>>

\* lines 91-109: activation token row, commit, queue the e-mail, return user
register_commit_token(c) ==
    /\ calls[c].pc = "register_commit_token"
    /\ activation_tokens' = activation_tokens \cup
            {NewTokenRow(next_token, calls[c].user.id, now)}
    /\ next_token' = next_token + 1
    /\ background_tasks' = add_task(background_tasks, "activation_request",
                                    calls[c].user.email, next_token)
    /\ calls' = [calls EXCEPT ![c] =
            Respond([@ EXCEPT !.new = next_token, !.wrote = TRUE], OK, "")]
    /\ UNCHANGED <<users, password_reset_tokens, refresh_tokens, now,
                   next_user_id, next_refresh_id, handed_out, consumed, sent>>

(* -------------------------- activate_account -------------------------- *)
\* lines 127-135: look the token up, unexpired
activate_account(c) ==
    /\ calls[c].pc = "idle"
    /\ \E token \in Presentable :
        LET call == [Idle EXCEPT !.op = "activate_account", !.token = token]
            row == ValidToken(activation_tokens, token, now)
        IN  calls' = [calls EXCEPT ![c] =
                IF row = NoRow
                THEN Respond(call, TokenExpiredError, "")
                ELSE [call EXCEPT !.pc = "activate_user", !.row = row]]
    /\ UNCHANGED <<users, activation_tokens, password_reset_tokens,
                   refresh_tokens, background_tasks, now, next_user_id,
                   next_token, next_refresh_id, handed_out, consumed, sent>>

\* lines 137-144: load the owner
activate_user(c) ==
    /\ calls[c].pc = "activate_user"
    /\ LET user == UserById(calls[c].row.user_id)
       IN  calls' = [calls EXCEPT ![c] =
                IF user = NoUser
                THEN Respond(@, HTTP_404_NOT_FOUND, "")
                ELSE [@ EXCEPT !.pc = "activate_commit", !.user = user]]
    /\ UNCHANGED <<users, activation_tokens, password_reset_tokens,
                   refresh_tokens, background_tasks, now, next_user_id,
                   next_token, next_refresh_id, handed_out, consumed, sent>>

\* lines 146-159: is_active = True, delete the token, commit, queue the e-mail
activate_commit(c) ==
    /\ calls[c].pc = "activate_commit"
    /\ users' = SetActive(users, calls[c].user.id)
    /\ activation_tokens' = DeleteObject(activation_tokens, calls[c].row)
    /\ background_tasks' = add_task(background_tasks, "activation_complete",
                                    calls[c].user.email, NoToken)
    /\ consumed' = Consume("activation", calls[c].token)
    /\ calls' = [calls EXCEPT ![c] = Respond([@ EXCEPT !.wrote = TRUE], OK, "")]
    /\ UNCHANGED <<password_reset_tokens, refresh_tokens, now, next_user_id,
                   next_token, next_refresh_id, handed_out, sent>>

(* -------------------- request_password_reset_token -------------------- *)
\* lines 177-181: look the user up; unknown e-mail returns 200 at once
request_password_reset_token(c) ==
    /\ calls[c].pc = "idle"
    /\ Room
    /\ \E email \in Emails \cup {Unregistered} :
        LET call == [Idle EXCEPT !.op = "request_password_reset_token",
                                 !.email = email, !.mark = next_token]
            user == UserByEmail(email)
        IN  calls' = [calls EXCEPT ![c] =
                IF user = NoUser
                THEN Respond(call, OK, MsgResetGeneric)
                ELSE [call EXCEPT !.pc = "reset_request_delete", !.user = user]]
    /\ UNCHANGED <<users, activation_tokens, password_reset_tokens,
                   refresh_tokens, background_tasks, now, next_user_id,
                   next_token, next_refresh_id, handed_out, consumed, sent>>

\* lines 184-189: delete the user's reset tokens; commit
reset_request_delete(c) ==
    /\ calls[c].pc = "reset_request_delete"
    /\ password_reset_tokens' = DeleteByUser(password_reset_tokens, calls[c].user.id)
    /\ calls' = [calls EXCEPT ![c].pc = "reset_request_insert",
                              ![c].wrote = \E r \in password_reset_tokens :
                                              r.user_id = calls[c].user.id]
    /\ UNCHANGED <<users, activation_tokens, refresh_tokens,
                   background_tasks, now, next_user_id, next_token,
                   next_refresh_id, handed_out, consumed, sent>>

\* lines 191-207: new reset token row; commit; queue the e-mail; return
reset_request_insert(c) ==
    /\ calls[c].pc = "reset_request_insert"
    /\ password_reset_tokens' = password_reset_tokens \cup
            {NewTokenRow(next_token, calls[c].user.id, now)}
    /\ next_token' = next_token + 1
    /\ background_tasks' = add_task(background_tasks, "password_reset_request",
                                    calls[c].user.email, next_token)
    /\ calls' = [calls EXCEPT ![c] =
                    Respond([@ EXCEPT !.new = next_token, !.wrote = TRUE],
                            OK, MsgResetSent)]
    /\ UNCHANGED <<users, activation_tokens, refresh_tokens, now,
                   next_user_id, next_refresh_id, handed_out, consumed, sent>>

(* --------------------------- reset_password --------------------------- *)
\* a ResetPassword presenting this token has just been refused for its
\* password (its response is not yet sent)
RefusedWeak(token) ==
    \E d \in Calls :
        /\ calls[d].pc = "done" /\ calls[d].op = "reset_password"
        /\ calls[d].result = WeakPassword /\ calls[d].token = token

\* (mutant) the token is looked up before the password is validated
reset_password_TokenFirst(c) ==
    /\ calls[c].pc = "idle"
    /\ \E token \in Presentable, pw \in NewPasswords :
        LET call == [Idle EXCEPT !.op = "reset_password", !.token = token,
                                 !.password = pw]
            row == ValidToken(password_reset_tokens, token, now)
        IN  calls' = [calls EXCEPT ![c] =
                IF row = NoRow
                THEN Respond(call, TokenExpiredError, "")
                ELSE IF ~validate_password_strength(pw)
                THEN Respond(call, WeakPassword, "")
                ELSE [call EXCEPT !.pc = "reset_user", !.row = row,
                        !.mark = IF RefusedWeak(token) THEN 1 ELSE 0]]
    /\ UNCHANGED <<users, activation_tokens, password_reset_tokens,
                   refresh_tokens, background_tasks, now, next_user_id,
                   next_token, next_refresh_id, handed_out, consumed, sent>>

\* lines 227-237: password strength, then look the token up, unexpired.
\* mark notes whether the same token has just been refused for a weak
\* password (an observer's note, the handler does not read it).
reset_password(c) ==
    /\ calls[c].pc = "idle"
    /\ \E token \in Presentable, pw \in NewPasswords :
        LET call == [Idle EXCEPT !.op = "reset_password", !.token = token,
                                 !.password = pw]
            row == ValidToken(password_reset_tokens, token, now)
        IN  calls' = [calls EXCEPT ![c] =
                IF ~validate_password_strength(pw)
                THEN Respond(call, WeakPassword, "")
                ELSE IF row = NoRow
                THEN Respond(call, TokenExpiredError, "")
                ELSE [call EXCEPT !.pc = "reset_user", !.row = row,
                        !.mark = IF RefusedWeak(token) THEN 1 ELSE 0]]
    /\ UNCHANGED <<users, activation_tokens, password_reset_tokens,
                   refresh_tokens, background_tasks, now, next_user_id,
                   next_token, next_refresh_id, handed_out, consumed, sent>>

\* lines 239-246: load the owner
reset_user(c) ==
    /\ calls[c].pc = "reset_user"
    /\ LET user == UserById(calls[c].row.user_id)
       IN  calls' = [calls EXCEPT ![c] =
                IF user = NoUser
                THEN Respond(@, HTTP_404_NOT_FOUND, "")
                ELSE [@ EXCEPT !.pc = "reset_commit", !.user = user]]
    /\ UNCHANGED <<users, activation_tokens, password_reset_tokens,
                   refresh_tokens, background_tasks, now, next_user_id,
                   next_token, next_refresh_id, handed_out, consumed, sent>>

\* (mutant) a reset that also deletes the user's refresh rows
reset_commit_Revoking(c) ==
    /\ calls[c].pc = "reset_commit"
    /\ users' = SetPassword(users, calls[c].user.id,
                            hash_password(calls[c].password))
    /\ password_reset_tokens' = DeleteObject(password_reset_tokens, calls[c].row)
    /\ refresh_tokens' = DeleteByUser(refresh_tokens, calls[c].user.id)
    /\ background_tasks' = add_task(background_tasks, "password_reset_complete",
                                    calls[c].user.email, NoToken)
    /\ consumed' = Consume("reset", calls[c].token)
    /\ calls' = [calls EXCEPT ![c] =
            Respond([@ EXCEPT !.wrote = TRUE], OK, MsgResetDone)]
    /\ UNCHANGED <<activation_tokens, now, next_user_id,
                   next_token, next_refresh_id, handed_out, sent>>

\* lines 248-261: new hash, delete the token, commit, queue the e-mail
reset_commit(c) ==
    /\ calls[c].pc = "reset_commit"
    /\ users' = SetPassword(users, calls[c].user.id,
                            hash_password(calls[c].password))
    /\ password_reset_tokens' = DeleteObject(password_reset_tokens, calls[c].row)
    /\ background_tasks' = add_task(background_tasks, "password_reset_complete",
                                    calls[c].user.email, NoToken)
    /\ consumed' = Consume("reset", calls[c].token)
    /\ calls' = [calls EXCEPT ![c] =
            Respond([@ EXCEPT !.wrote = TRUE], OK, MsgResetDone)]
    /\ UNCHANGED <<activation_tokens, refresh_tokens, now, next_user_id,
                   next_token, next_refresh_id, handed_out, sent>>

(* ------------------------- AccountsRouter.login ----------------------- *)
\* (mutant) login without the is_active check
login_NoActiveCheck(c) ==
    /\ calls[c].pc = "idle"
    /\ RoomRefresh
    /\ \E email \in Emails \cup {Unregistered}, pw \in LoginPasswords :
        LET call == [Idle EXCEPT !.op = "login", !.email = email, !.password = pw]
            user == UserByEmail(email)
        IN  calls' = [calls EXCEPT ![c] =
                IF user = NoUser \/ ~verify_password(pw, user.hashed_password)
                THEN Respond(call, IncorrectCredentialsError, "")
                ELSE [call EXCEPT !.pc = "login_commit", !.user = user,
                        !.access = create_access_token(user.id, now),
                        !.refresh = create_refresh_token(user.id, now)]]
    /\ UNCHANGED <<users, activation_tokens, password_reset_tokens,
                   refresh_tokens, background_tasks, now, next_user_id,
                   next_token, next_refresh_id, handed_out, consumed, sent>>

\* lines 283-298: user by e-mail, password check, active check, sign the pair
login(c) ==
    /\ calls[c].pc = "idle"
    /\ RoomRefresh
    /\ \E email \in Emails \cup {Unregistered}, pw \in LoginPasswords :
        LET call == [Idle EXCEPT !.op = "login", !.email = email, !.password = pw]
            user == UserByEmail(email)
        IN  calls' = [calls EXCEPT ![c] =
                IF user = NoUser \/ ~verify_password(pw, user.hashed_password)
                THEN Respond(call, IncorrectCredentialsError, "")
                ELSE IF ~user.is_active
                THEN Respond(call, InactiveUserError, "")
                ELSE [call EXCEPT !.pc = "login_commit", !.user = user,
                        !.access = create_access_token(user.id, now),
                        !.refresh = create_refresh_token(user.id, now)]]
    /\ UNCHANGED <<users, activation_tokens, password_reset_tokens,
                   refresh_tokens, background_tasks, now, next_user_id,
                   next_token, next_refresh_id, handed_out, consumed, sent>>

\* lines 300-306: store the refresh row, commit, return the pair
login_commit(c) ==
    /\ calls[c].pc = "login_commit"
    /\ IF TokenTaken(refresh_tokens, calls[c].refresh)
       THEN /\ calls' = [calls EXCEPT ![c] =
                  Respond([@ EXCEPT !.access = NoBearer, !.refresh = NoBearer],
                          IntegrityError, "")]
            /\ UNCHANGED <<refresh_tokens, next_refresh_id, handed_out>>
       ELSE /\ refresh_tokens' = refresh_tokens \cup
                  {NewRefreshRow(next_refresh_id, calls[c].refresh,
                                 calls[c].user.id, calls[c].refresh.iat)}
            /\ next_refresh_id' = next_refresh_id + 1
            /\ handed_out' = handed_out \cup {calls[c].access, calls[c].refresh}
            /\ calls' = [calls EXCEPT ![c] =
                  Respond([@ EXCEPT !.wrote = TRUE], OK, "")]
    /\ UNCHANGED <<users, activation_tokens, password_reset_tokens,
                   background_tasks, now, next_user_id, next_token, consumed, sent>>

(* --------------------- AccountsRouter.refresh_token ------------------- *)
\* lines 322-335: decode the bearer, look its row up by value, subject, expiry
refresh_token(c) ==
    /\ calls[c].pc = "idle"
    /\ RoomRefresh
    /\ \E bearer \in PresentableBearer :
        LET call == [Idle EXCEPT !.op = "refresh_token", !.bearer = bearer,
                                 !.mark = BagCardinality(consumed["reset"])]
            row == ValidRefresh(refresh_tokens, bearer, int(bearer.sub), now)
        IN  calls' = [calls EXCEPT ![c] =
                IF decode_token(bearer, now, "refresh") # OK
                THEN Respond(call, decode_token(bearer, now, "refresh"), "")
                ELSE IF row = NoRefreshRow
                THEN Respond(call, TokenExpiredError, "")
                ELSE [call EXCEPT !.pc = "refresh_user", !.rrow = row]]
    /\ UNCHANGED <<users, activation_tokens, password_reset_tokens,
                   refresh_tokens, background_tasks, now, next_user_id,
                   next_token, next_refresh_id, handed_out, consumed, sent>>

\* lines 337-349: load the subject, sign a new pair
refresh_user(c) ==
    /\ calls[c].pc = "refresh_user"
    /\ LET user == UserById(int(calls[c].bearer.sub))
       IN  calls' = [calls EXCEPT ![c] =
                IF user = NoUser
                THEN Respond(@, HTTP_404_NOT_FOUND, "")
                ELSE [@ EXCEPT !.pc = "refresh_commit", !.user = user,
                        !.access = create_access_token(user.id, now),
                        !.refresh = create_refresh_token(user.id, now)]]
    /\ UNCHANGED <<users, activation_tokens, password_reset_tokens,
                   refresh_tokens, background_tasks, now, next_user_id,
                   next_token, next_refresh_id, handed_out, consumed, sent>>

\* lines 350-359: delete the old row, add the new one, commit, return the pair
refresh_commit(c) ==
    /\ calls[c].pc = "refresh_commit"
    /\ IF TokenTaken(refresh_tokens, calls[c].refresh)
       THEN /\ calls' = [calls EXCEPT ![c] =
                  Respond([@ EXCEPT !.access = NoBearer, !.refresh = NoBearer],
                          IntegrityError, "")]
            /\ UNCHANGED <<refresh_tokens, next_refresh_id, handed_out, consumed>>
       ELSE /\ refresh_tokens' =
                  DeleteObject(refresh_tokens, calls[c].rrow) \cup
                  {NewRefreshRow(next_refresh_id, calls[c].refresh,
                                 calls[c].user.id, calls[c].refresh.iat)}
            /\ next_refresh_id' = next_refresh_id + 1
            /\ handed_out' = handed_out \cup {calls[c].access, calls[c].refresh}
            /\ consumed' = Consume("refresh", calls[c].bearer)
            /\ calls' = [calls EXCEPT ![c] =
                  Respond([@ EXCEPT !.wrote = TRUE], OK, "")]
    /\ UNCHANGED <<users, activation_tokens, password_reset_tokens,
                   background_tasks, now, next_user_id, next_token, sent>>

(* ------------------------ AccountsRouter.logout ----------------------- *)
\* lines 375-390: decode the bearer, look its row up by value and subject
logout(c) ==
    /\ calls[c].pc = "idle"
    /\ \E bearer \in PresentableBearer :
        LET call == [Idle EXCEPT !.op = "logout", !.bearer = bearer]
            row == AnyRefresh(refresh_tokens, bearer, int(bearer.sub))
        IN  calls' = [calls EXCEPT ![c] =
                IF decode_token(bearer, now, "refresh") # OK
                THEN Respond(call, decode_token(bearer, now, "refresh"), "")
                ELSE IF row = NoRefreshRow
                THEN Respond(call, TokenValidationException, "")
                ELSE [call EXCEPT !.pc = "logout_commit", !.rrow = row]]
    /\ UNCHANGED <<users, activation_tokens, password_reset_tokens,
                   refresh_tokens, background_tasks, now, next_user_id,
                   next_token, next_refresh_id, handed_out, consumed, sent>>

\* (mutant) a logout that ends every session of the user
logout_commit_AllDevices(c) ==
    /\ calls[c].pc = "logout_commit"
    /\ refresh_tokens' = DeleteByUser(refresh_tokens, calls[c].rrow.user_id)
    /\ consumed' = Consume("logout", calls[c].bearer)
    /\ calls' = [calls EXCEPT ![c] =
            Respond([@ EXCEPT !.wrote = TRUE], OK, MsgLogout)]
    /\ UNCHANGED <<users, activation_tokens, password_reset_tokens,
                   background_tasks, now, next_user_id, next_token,
                   next_refresh_id, handed_out, sent>>

\* lines 386-392: delete the row, commit
logout_commit(c) ==
    /\ calls[c].pc = "logout_commit"
    /\ refresh_tokens' = DeleteObject(refresh_tokens, calls[c].rrow)
    /\ consumed' = Consume("logout", calls[c].bearer)
    /\ calls' = [calls EXCEPT ![c] =
            Respond([@ EXCEPT !.wrote = TRUE], OK, MsgLogout)]
    /\ UNCHANGED <<users, activation_tokens, password_reset_tokens,
                   background_tasks, now, next_user_id, next_token,
                   next_refresh_id, handed_out, sent>>

(* ------------------------------ the rest ------------------------------ *)
\* requests whose next step is an `await db.commit()`
Committing == {"register_commit_user", "register_commit_token",
               "activate_commit", "reset_request_delete",
               "reset_request_insert", "reset_commit", "login_commit",
               "refresh_commit", "logout_commit"}

\* (mutant) the e-mail is queued before the commit that then fails
commit_raises_Queued(c) ==
    /\ calls[c].pc \in Committing
    /\ calls' = [calls EXCEPT ![c] =
            Respond([@ EXCEPT !.access = NoBearer, !.refresh = NoBearer],
                    SQLAlchemyError, "")]
    /\ background_tasks' = add_task(background_tasks, calls[c].op,
                                    calls[c].user.email, NoToken)
    /\ UNCHANGED <<users, activation_tokens, password_reset_tokens,
                   refresh_tokens, now, next_user_id,
                   next_token, next_refresh_id, handed_out, consumed, sent>>

\* the store fails at a commit: the transaction of that commit is rolled
\* back, the exception leaves the handler (none of them catches it), what
\* the request committed earlier stays
commit_raises(c) ==
    /\ calls[c].pc \in Committing
    /\ calls' = [calls EXCEPT ![c] =
            Respond([@ EXCEPT !.access = NoBearer, !.refresh = NoBearer],
                    SQLAlchemyError, "")]
    /\ UNCHANGED <<users, activation_tokens, password_reset_tokens,
                   refresh_tokens, background_tasks, now, next_user_id,
                   next_token, next_refresh_id, handed_out, consumed, sent>>

\* a queued e-mail task runs after its response went out; the send works or
\* raises, and nobody is waiting for it
send_email(m, delivered) ==
    /\ BagCardinality(sent) < MaxSends
    /\ CopiesIn([mail |-> m, delivered |-> TRUE], sent)
          + CopiesIn([mail |-> m, delivered |-> FALSE], sent)
          < CopiesIn(m, background_tasks)
    /\ sent' = sent (+) SetToBag({[mail |-> m, delivered |-> delivered]})
    /\ UNCHANGED <<users, activation_tokens, password_reset_tokens,
                   refresh_tokens, background_tasks, calls, now, next_user_id,
                   next_token, next_refresh_id, handed_out, consumed>>

\* the response is sent; the request and its session are gone
Return(c) ==
    /\ calls[c].pc = "done"
    /\ calls' = [calls EXCEPT ![c] = Idle]
    /\ UNCHANGED <<users, activation_tokens, password_reset_tokens,
                   refresh_tokens, background_tasks, now, next_user_id,
                   next_token, next_refresh_id, handed_out, consumed, sent>>

\* time passes
Tick ==
    /\ now < MaxTime
    /\ now' = now + 1
    /\ UNCHANGED <<users, activation_tokens, password_reset_tokens,
                   refresh_tokens, background_tasks, calls, next_user_id,
                   next_token, next_refresh_id, handed_out, consumed, sent>>

Registration(c) ==
    register_user(c) \/ register_commit_user(c) \/ register_commit_token(c)
Activation(c) ==
    activate_account(c) \/ activate_user(c) \/ activate_commit(c)
ResetRequest(c) ==
    request_password_reset_token(c) \/ reset_request_delete(c)
        \/ reset_request_insert(c)
PasswordReset(c) ==
    reset_password(c) \/ reset_user(c) \/ reset_commit(c)
Login(c) == login(c) \/ login_commit(c)
RefreshSession(c) == refresh_token(c) \/ refresh_user(c) \/ refresh_commit(c)
Logout(c) == logout(c) \/ logout_commit(c)

\* every handler of the router
Next ==
    \/ \E c \in Calls : Registration(c)
    \/ \E c \in Calls : Activation(c)
    \/ \E c \in Calls : ResetRequest(c)
    \/ \E c \in Calls : PasswordReset(c)
    \/ \E c \in Calls : Login(c)
    \/ \E c \in Calls : RefreshSession(c)
    \/ \E c \in Calls : Logout(c)
    \/ \E c \in Calls : Return(c)
    \/ \E c \in Calls : commit_raises(c)
    \/ \E m \in BagToSet(background_tasks), delivered \in BOOLEAN :
            send_email(m, delivered)
    \/ Tick

Spec == Init /\ [][Next]_vars

(***************************************************************************)
(* The handlers are checked in groups.  SpecRegistration starts from the  *)
(* empty database.  The others start from a database SpecRegistration      *)
(* reaches, such as InitRegistered: alice registered and activated, bob    *)
(* registered.                                                             *)
(***************************************************************************)
Alice == [id |-> 1, email |-> "alice@example.com",
          hashed_password |-> hash_password("Str0ng!Pass"), is_active |-> TRUE]
Bob == [id |-> 2, email |-> "bob@example.com",
        hashed_password |-> hash_password("Str0ng!Pass"), is_active |-> FALSE]

InitRegistered ==
    /\ users = {Alice, Bob}
    /\ activation_tokens = {NewTokenRow(2, 2, 0)}
    /\ password_reset_tokens = {}
    /\ refresh_tokens = {}
    /\ background_tasks =
            SetToBag({Mail("activation_request", "alice@example.com", 1),
                      Mail("activation_request", "bob@example.com", 2),
                      Mail("activation_complete", "alice@example.com", NoToken)})
    /\ calls = [c \in Calls |-> Idle]
    /\ now = 0
    /\ next_user_id = 3
    /\ next_token = 3
    /\ next_refresh_id = 1
    /\ handed_out = {}
    /\ sent = EmptyBag
    /\ consumed = [k \in {"activation", "reset", "refresh", "logout"} |->
                        IF k = "activation" THEN SetToBag({1}) ELSE EmptyBag]

NextRegistration ==
    \/ \E c \in Calls : register_user(c)
    \/ \E c \in Calls : register_commit_user(c)
    \/ \E c \in Calls : register_commit_token(c)
    \/ \E c \in Calls : activate_account(c)
    \/ \E c \in Calls : activate_user(c)
    \/ \E c \in Calls : activate_commit(c)
    \/ \E c \in Calls : login(c)
    \/ \E c \in Calls : login_commit(c)
    \/ \E c \in Calls : Return(c)
    \/ Tick

SpecRegistration == Init /\ [][NextRegistration]_vars

NextPasswordReset ==
    \/ \E c \in Calls : activate_account(c)
    \/ \E c \in Calls : activate_user(c)
    \/ \E c \in Calls : activate_commit(c)
    \/ \E c \in Calls : request_password_reset_token(c)
    \/ \E c \in Calls : reset_request_delete(c)
    \/ \E c \in Calls : reset_request_insert(c)
    \/ \E c \in Calls : reset_password(c)
    \/ \E c \in Calls : reset_user(c)
    \/ \E c \in Calls : reset_commit(c)
    \/ \E c \in Calls : Return(c)
    \/ Tick

SpecPasswordReset == InitRegistered /\ [][NextPasswordReset]_vars

NextSession ==
    \/ \E c \in Calls : login(c)
    \/ \E c \in Calls : login_commit(c)
    \/ \E c \in Calls : refresh_token(c)
    \/ \E c \in Calls : refresh_user(c)
    \/ \E c \in Calls : refresh_commit(c)
    \/ \E c \in Calls : logout(c)
    \/ \E c \in Calls : logout_commit(c)
    \/ \E c \in Calls : Return(c)
    \/ Tick

SpecSession == InitRegistered /\ [][NextSession]_vars

\* registration and activation with a store that may fail at any commit
NextFailures ==
    \/ \E c \in Calls : register_user(c)
    \/ \E c \in Calls : register_commit_user(c)
    \/ \E c \in Calls : register_commit_token(c)
    \/ \E c \in Calls : activate_account(c)
    \/ \E c \in Calls : activate_user(c)
    \/ \E c \in Calls : activate_commit(c)
    \/ \E c \in Calls : commit_raises(c)
    \/ \E c \in Calls : Return(c)
    \/ Tick

SpecFailures == Init /\ [][NextFailures]_vars

\* the four handlers that queue an e-mail, served one request at a time at
\* one clock reading, with a store that may fail and the queued tasks run
NextNotifications ==
    \/ register_user(1) \/ register_commit_user(1) \/ register_commit_token(1)
    \/ activate_account(1) \/ activate_user(1) \/ activate_commit(1)
    \/ request_password_reset_token(1) \/ reset_request_delete(1)
    \/ reset_request_insert(1)
    \/ reset_password(1) \/ reset_user(1) \/ reset_commit(1)
    \/ commit_raises(1)
    \/ \E m \in BagToSet(background_tasks), delivered \in BOOLEAN :
            send_email(m, delivered)
    \/ Return(1)

SpecNotifications == Init /\ [][NextNotifications]_vars

\* InitRegistered after alice asked for a password reset and logged in, both
\* at clock reading 0 (a state Spec reaches)
InitLoggedIn ==
    /\ users = {Alice, Bob}
    /\ activation_tokens = {NewTokenRow(2, 2, 0)}
    /\ password_reset_tokens = {NewTokenRow(3, 1, 0)}
    /\ refresh_tokens = {NewRefreshRow(1, create_refresh_token(1, 0), 1, 0)}
    /\ background_tasks =
            SetToBag({Mail("activation_request", "alice@example.com", 1),
                      Mail("activation_request", "bob@example.com", 2),
                      Mail("activation_complete", "alice@example.com", NoToken),
                      Mail("password_reset_request", "alice@example.com", 3)})
    /\ calls = [c \in Calls |-> Idle]
    /\ now = 0
    /\ next_user_id = 3
    /\ next_token = 4
    /\ next_refresh_id = 2
    /\ handed_out = {create_access_token(1, 0), create_refresh_token(1, 0)}
    /\ sent = EmptyBag
    /\ consumed = [k \in {"activation", "reset", "refresh", "logout"} |->
                        IF k = "activation" THEN SetToBag({1}) ELSE EmptyBag]

\* the handlers that are handed a token, on the tokens of InitLoggedIn and
\* of their own rotations
NextLookups ==
    \/ \E c \in Calls : activate_account(c)
    \/ \E c \in Calls : activate_user(c)
    \/ \E c \in Calls : activate_commit(c)
    \/ \E c \in Calls : reset_password(c)
    \/ \E c \in Calls : reset_user(c)
    \/ \E c \in Calls : reset_commit(c)
    \/ \E c \in Calls : refresh_token(c)
    \/ \E c \in Calls : refresh_user(c)
    \/ \E c \in Calls : refresh_commit(c)
    \/ \E c \in Calls : logout(c)
    \/ \E c \in Calls : logout_commit(c)
    \/ \E c \in Calls : Return(c)
    \/ Tick

SpecLookups == InitLoggedIn /\ [][NextLookups]_vars

\* the database after alice registered and activated at clock reading 0 (a
\* state SpecRegistration reaches); bob is still to register
InitActivated ==
    /\ users = {Alice}
    /\ activation_tokens = {}
    /\ password_reset_tokens = {}
    /\ refresh_tokens = {}
    /\ background_tasks =
            SetToBag({Mail("activation_request", "alice@example.com", 1),
                      Mail("activation_complete", "alice@example.com", NoToken)})
    /\ calls = [c \in Calls |-> Idle]
    /\ now = 0
    /\ next_user_id = 2
    /\ next_token = 2
    /\ next_refresh_id = 1
    /\ handed_out = {}
    /\ sent = EmptyBag
    /\ consumed = [k \in {"activation", "reset", "refresh", "logout"} |->
                        IF k = "activation" THEN SetToBag({1}) ELSE EmptyBag]

\* every handler that writes to the users table
NextCredential ==
    \/ \E c \in Calls : register_user(c)
    \/ \E c \in Calls : register_commit_user(c)
    \/ \E c \in Calls : register_commit_token(c)
    \/ \E c \in Calls : activate_account(c)
    \/ \E c \in Calls : activate_user(c)
    \/ \E c \in Calls : activate_commit(c)
    \/ \E c \in Calls : request_password_reset_token(c)
    \/ \E c \in Calls : reset_request_delete(c)
    \/ \E c \in Calls : reset_request_insert(c)
    \/ \E c \in Calls : reset_password(c)
    \/ \E c \in Calls : reset_user(c)
    \/ \E c \in Calls : reset_commit(c)
    \/ \E c \in Calls : Return(c)
    \/ Tick

SpecCredential == InitActivated /\ [][NextCredential]_vars

\* InitRegistered after bob activated as well (a state SpecRegistration
\* reaches), so that both credentials can sign in
InitBothActive ==
    /\ users = {Alice, [Bob EXCEPT !.is_active = TRUE]}
    /\ activation_tokens = {}
    /\ password_reset_tokens = {}
    /\ refresh_tokens = {}
    /\ background_tasks =
            SetToBag({Mail("activation_request", "alice@example.com", 1),
                      Mail("activation_request", "bob@example.com", 2),
                      Mail("activation_complete", "alice@example.com", NoToken),
                      Mail("activation_complete", "bob@example.com", NoToken)})
    /\ calls = [c \in Calls |-> Idle]
    /\ now = 0
    /\ next_user_id = 3
    /\ next_token = 3
    /\ next_refresh_id = 1
    /\ handed_out = {}
    /\ sent = EmptyBag
    /\ consumed = [k \in {"activation", "reset", "refresh", "logout"} |->
                        IF k = "activation" THEN SetToBag({1, 2}) ELSE EmptyBag]

\* the session handlers with two credentials able to sign in
SpecDevices == InitBothActive /\ [][NextSession]_vars

(* ------------------------------- claims ------------------------------- *)
\* the step in which call c enters handler op
Enters(c, op) == calls[c].pc = "idle" /\ calls'[c].op = op

Successes(kind, value) == CopiesIn(value, consumed[kind])

\* C1: no activation token and no password-reset token value is consumed by
\* more than one successful Activate (resp. ResetPassword) call, whatever the
\* interleaving of the calls' lookup, mutation and commit steps.
C1_ExactlyOnce ==
    \A t \in 1..MaxTokens :
        /\ Successes("activation", t) <= 1
        /\ Successes("reset", t) <= 1

\* C2: no refresh token is rotated by more than one successful RefreshSession
\* call, so one stored row never has two live successor rows.
C2_RotatedOnce ==
    /\ \A b \in handed_out : Successes("refresh", b) <= 1
    /\ \A c, d \in Calls :
          (/\ c # d
           /\ calls[c].pc = "done" /\ calls[c].op = "refresh_token"
           /\ calls[d].pc = "done" /\ calls[d].op = "refresh_token"
           /\ calls[c].result = OK /\ calls[d].result = OK
           /\ calls[c].bearer = calls[d].bearer)
          => ~(\E r1, r2 \in refresh_tokens :
                    r1.token = calls[c].refresh /\ r2.token = calls[d].refresh)

\* C3: once a RefreshSession presenting R has succeeded, every RefreshSession
\* that presents R afterwards ends at once with TokenExpired and changes nothing.
C3_NoReplay ==
    [][\A c \in Calls :
         (Enters(c, "refresh_token")
            /\ BagIn(calls'[c].bearer, consumed["refresh"]))
         => /\ calls'[c].pc = "done"
            /\ calls'[c].result = TokenExpiredError
            /\ refresh_tokens' = refresh_tokens]_vars

\* C4: an activation (reset) token presented to Activate (ResetPassword) while
\* its unexpired row is stored is accepted, the call then ends in success and
\* in nothing else; presented again after that success it is refused with
\* TokenExpired, the same error an unknown token gets.
C4_SingleUse ==
    [][\A c \in Calls :
         /\ (Enters(c, "activate_account")
                /\ BagIn(calls'[c].token, consumed["activation"]))
            => (calls'[c].pc = "done" /\ calls'[c].result = TokenExpiredError)
         /\ (Enters(c, "reset_password")
                /\ BagIn(calls'[c].token, consumed["reset"])
                /\ validate_password_strength(calls'[c].password))
            => (calls'[c].pc = "done" /\ calls'[c].result = TokenExpiredError)
         /\ (Enters(c, "activate_account")
                /\ \E r \in activation_tokens :
                      r.token = calls'[c].token /\ r.expires_at > now)
            => calls'[c].pc = "activate_user"
         /\ (Enters(c, "reset_password")
                /\ validate_password_strength(calls'[c].password)
                /\ \E r \in password_reset_tokens :
                      r.token = calls'[c].token /\ r.expires_at > now)
            => calls'[c].pc = "reset_user"
         /\ (calls[c].pc \in {"activate_user", "activate_commit", "reset_user",
                               "reset_commit"} /\ calls'[c].pc = "done")
            => calls'[c].result = OK]_vars

C4_Witness ==
    \E c, d \in Calls :
        /\ calls[c].pc = "done" /\ calls[c].op = "activate_account"
        /\ calls[c].result = TokenExpiredError
        /\ Successes("activation", calls[c].token) = 1
        /\ calls[d].pc = "done" /\ calls[d].op = "reset_password"
        /\ calls[d].result = TokenExpiredError
        /\ Successes("reset", calls[d].token) = 1
        /\ validate_password_strength(calls[d].password)
        /\ now = 0

\* C5 as stated: Login on an inactive credential ends with InactiveAccount
\* whether or not the password matches, and stores no refresh row.
C5_InactiveAlways ==
    [][\A c \in Calls :
         (Enters(c, "login")
            /\ \E u \in users : u.email = calls'[c].email /\ ~u.is_active)
         => /\ calls'[c].pc = "done"
            /\ calls'[c].result = InactiveUserError
            /\ refresh_tokens' = refresh_tokens]_vars

\* C5 amended: Login on an inactive credential ends with InactiveAccount when
\* the password matches and with InvalidCredentials when it does not; either
\* way the call ends there and stores no refresh row.
C5_InactiveRefused ==
    [][\A c \in Calls :
         (Enters(c, "login")
            /\ \E u \in users : u.email = calls'[c].email /\ ~u.is_active)
         => LET u == CHOOSE u \in users : u.email = calls'[c].email
            IN  /\ calls'[c].pc = "done"
                /\ calls'[c].result =
                      IF verify_password(calls'[c].password, u.hashed_password)
                      THEN InactiveUserError ELSE IncorrectCredentialsError
                /\ refresh_tokens' = refresh_tokens]_vars

C5_Witness ==
    \E c, d \in Calls :
        /\ calls[c].pc = "done" /\ calls[c].op = "login"
        /\ calls[c].result = InactiveUserError
        /\ calls[d].pc = "done" /\ calls[d].op = "login"
        /\ calls[d].result = IncorrectCredentialsError
        /\ calls[d].email = calls[c].email
        /\ \E u \in users : u.email = calls[c].email /\ ~u.is_active

ResetRequestDone(d) ==
    /\ calls[d].pc = "done" /\ calls[d].op = "request_password_reset_token"

KnownEmail(email) == \E u \in users : u.email = email

\* C6: a RequestPasswordReset for an unknown e-mail and one for a known
\* e-mail give the caller the same status and the same message.
C6_Indistinguishable ==
    \A c, d \in Calls :
        (/\ ResetRequestDone(c) /\ ~KnownEmail(calls[c].email)
         /\ ResetRequestDone(d) /\ KnownEmail(calls[d].email))
        => /\ calls[c].result = calls[d].result
           /\ calls[c].message = calls[d].message

\* C7: a RequestPasswordReset for an unknown e-mail ends without writing to
\* any table and without queueing an e-mail; one for a known e-mail leaves
\* exactly one reset token row for that credential when it returns.
C7_Frame ==
    [][\A c \in Calls :
         /\ (Enters(c, "request_password_reset_token")
                /\ ~KnownEmail(calls'[c].email))
            => /\ calls'[c].pc = "done"
               /\ UNCHANGED <<store, background_tasks>>
         /\ (calls[c].pc = "reset_request_insert" /\ calls'[c].pc = "done")
            => Cardinality({r \in password_reset_tokens' :
                              r.user_id = calls[c].user.id}) = 1]_vars

\* reset token t was issued to the credential with this e-mail
IssuedTo(t, email) ==
    BagIn(Mail("password_reset_request", email, t), background_tasks)

\* C8: once a RequestPasswordReset that began after reset token t was issued
\* to the same credential has returned, a ResetPassword presenting t (with an
\* acceptable new password) ends at once with TokenExpired, whether or not
\* t's expiry time has passed.
C8_Superseded ==
    [][\A c, d \in Calls :
         (/\ Enters(c, "reset_password")
          /\ validate_password_strength(calls'[c].password)
          /\ ResetRequestDone(d) /\ calls[d].message = MsgResetSent
          /\ IssuedTo(calls'[c].token, calls[d].email)
          /\ calls'[c].token < calls[d].mark)
         => /\ calls'[c].pc = "done"
            /\ calls'[c].result = TokenExpiredError
            /\ UNCHANGED store]_vars

C8_Witness ==
    \E c, d \in Calls :
        /\ calls[c].pc = "done" /\ calls[c].op = "reset_password"
        /\ calls[c].result = TokenExpiredError
        /\ ResetRequestDone(d) /\ calls[d].message = MsgResetSent
        /\ IssuedTo(calls[c].token, calls[d].email)
        /\ calls[c].token < calls[d].mark
        /\ Successes("reset", calls[c].token) = 0
        /\ now = 0

\* C9: in every reachable state a credential owns at most one reset token row.
C9_AtMostOne ==
    \A u \in users :
        Cardinality({r \in password_reset_tokens : r.user_id = u.id}) <= 1

\* C10: at most one credential is ever stored per e-mail, and a Register call
\* that does not create the credential fails with DuplicateEmail (or
\* WeakPassword), never with anything else.
C10_RaceSafe ==
    /\ \A e \in Emails : Cardinality({u \in users : u.email = e}) <= 1
    /\ \A c \in Calls :
          (calls[c].pc = "done" /\ calls[c].op = "register_user")
          => calls[c].result \in {OK, DuplicateEmail, WeakPassword}

\* the step in which call c ends in an error
Fails(c) ==
    calls[c].pc # "done" /\ calls'[c].pc = "done" /\ calls'[c].result # OK

\* C11: a request that ends in an error, a store failure at one of its
\* commits included, has written nothing: the failing step leaves the tables
\* alone and no earlier commit of the same request went through.
C11_NoPartialState ==
    [][\A c \in Calls :
         Fails(c) => (UNCHANGED store /\ ~calls'[c].wrote)]_vars

\* a refresh row with this value and this subject is stored
Stored(bearer) ==
    \E r \in refresh_tokens : r.token = bearer /\ r.user_id = int(bearer.sub)

\* C12: a Logout whose bearer decodes goes on to success exactly when a row
\* with that value and subject is stored, and its success deletes the row it
\* found; with no such row (after an earlier Logout, say) it ends with
\* TokenValidationException (the spec's TokenNotFound) and changes nothing.
C12_LogoutReported ==
    [][\A c \in Calls :
         /\ (Enters(c, "logout")
               /\ decode_token(calls'[c].bearer, now, "refresh") = OK)
            => IF Stored(calls'[c].bearer)
               THEN calls'[c].pc = "logout_commit"
               ELSE /\ calls'[c].pc = "done"
                    /\ calls'[c].result = TokenValidationException
                    /\ UNCHANGED store
         /\ (calls[c].pc = "logout_commit" /\ calls'[c].pc = "done")
            => /\ calls'[c].result = OK
               /\ calls[c].rrow \notin refresh_tokens']_vars

C12_Witness ==
    \E c \in Calls :
        /\ calls[c].pc = "done" /\ calls[c].op = "logout"
        /\ calls[c].result = TokenValidationException
        /\ BagIn(calls[c].bearer, consumed["logout"])

\* rows with this token value are stored, none of them with an expires_at
\* strictly later than now
Expired(table, value) ==
    /\ \E r \in table : r.token = value
    /\ \A r \in table : r.token = value => ~(r.expires_at > now)

\* call c ends in this step as it does when no row is found
Missed(c, error) ==
    calls'[c].pc = "done" /\ calls'[c].result = error /\ UNCHANGED store

\* Activate, ResetPassword and RefreshSession treat an expired row as absent
ExpiredAbsentFiltered(c) ==
    /\ (Enters(c, "activate_account")
          /\ Expired(activation_tokens, calls'[c].token))
       => Missed(c, TokenExpiredError)
    /\ (Enters(c, "reset_password")
          /\ validate_password_strength(calls'[c].password)
          /\ Expired(password_reset_tokens, calls'[c].token))
       => Missed(c, TokenExpiredError)
    /\ (Enters(c, "refresh_token")
          /\ decode_token(calls'[c].bearer, now, "refresh") = OK
          /\ Expired(refresh_tokens, calls'[c].bearer))
       => Missed(c, TokenExpiredError)

\* C13: every handler that looks a token row up treats a row whose
\* expires_at is not strictly later than now as absent: presented with the
\* value of such a row it ends as it does on a miss and writes nothing.
C13_ExpiredAbsent ==
    [][\A c \in Calls :
         /\ ExpiredAbsentFiltered(c)
         /\ (Enters(c, "logout")
               /\ decode_token(calls'[c].bearer, now, "refresh") = OK
               /\ Expired(refresh_tokens, calls'[c].bearer))
            => Missed(c, TokenValidationException)]_vars

\* no row with this value is stored unexpired: the value was never issued,
\* or its row has expired, or its row was consumed, rotated or revoked
NoValidRow(table, value) ==
    ~\E r \in table : r.token = value /\ r.expires_at > now

\* C14: Activate, ResetPassword (with an acceptable password) and
\* RefreshSession (with a bearer that decodes) end with TokenExpiredError and
\* leave the store alone whenever no unexpired row has the presented value,
\* whichever of the three reasons there is for that.
C14_NoOracle ==
    [][\A c \in Calls :
         /\ (Enters(c, "activate_account")
               /\ NoValidRow(activation_tokens, calls'[c].token))
            => Missed(c, TokenExpiredError)
         /\ (Enters(c, "reset_password")
               /\ validate_password_strength(calls'[c].password)
               /\ NoValidRow(password_reset_tokens, calls'[c].token))
            => Missed(c, TokenExpiredError)
         /\ (Enters(c, "refresh_token")
               /\ decode_token(calls'[c].bearer, now, "refresh") = OK
               /\ NoValidRow(refresh_tokens, calls'[c].bearer))
            => Missed(c, TokenExpiredError)]_vars

\* a rotated bearer and an expired reset token, both refused the same way
C14_Witness ==
    \E c, d \in Calls :
        /\ calls[c].pc = "done" /\ calls[c].op = "refresh_token"
        /\ calls[c].result = TokenExpiredError
        /\ decode_token(calls[c].bearer, now, "refresh") = OK
        /\ BagIn(calls[c].bearer, consumed["refresh"])
        /\ ~Stored(calls[c].bearer)
        /\ calls[d].pc = "done" /\ calls[d].op = "reset_password"
        /\ calls[d].result = TokenExpiredError
        /\ Expired(password_reset_tokens, calls[d].token)

\* the e-mail is known and the password is not the one its hash was made of
WrongPassword(email, pw) ==
    \E u \in users : u.email = email /\ u.hashed_password # hash_password(pw)

\* C15: Login with an unknown e-mail and Login with a known e-mail and a
\* password that does not match end the same way, with
\* IncorrectCredentialsError and the same (empty) detail, and write nothing.
C15_SameError ==
    [][\A c \in Calls :
         (Enters(c, "login")
            /\ (~KnownEmail(calls'[c].email)
                  \/ WrongPassword(calls'[c].email, calls'[c].password)))
         => /\ Missed(c, IncorrectCredentialsError)
            /\ calls'[c].message = ""]_vars

C15_Witness ==
    \E c, d \in Calls :
        /\ calls[c].pc = "done" /\ calls[c].op = "login"
        /\ ~KnownEmail(calls[c].email)
        /\ calls[d].pc = "done" /\ calls[d].op = "login"
        /\ WrongPassword(calls[d].email, calls[d].password)
        /\ calls[c].result = IncorrectCredentialsError
        /\ calls[d].result = calls[c].result
        /\ calls[d].message = calls[c].message

\* C16: an e-mail is queued only in the step in which its request's last
\* commit went through and the request ends in success; a request that
\* ends in an error queues nothing; and a queued e-mail that runs, delivered
\* or not, changes neither a response nor the store nor the queue.
C16_Decoupled ==
    [][/\ background_tasks' # background_tasks
          => \E c \in Calls :
                /\ calls[c].pc \in Committing /\ calls'[c].pc = "done"
                /\ calls'[c].result = OK /\ calls'[c].wrote
                /\ BagCardinality(background_tasks')
                      = BagCardinality(background_tasks) + 1
       /\ \A c \in Calls : Fails(c) => UNCHANGED background_tasks
       /\ sent' # sent => UNCHANGED <<store, calls, background_tasks>>]_vars

\* bob registered, the activation e-mail was not delivered, the response and
\* the rows are as they were
C16_Witness ==
    \E c \in Calls, u \in users, r \in activation_tokens :
        /\ calls[c].pc = "done" /\ calls[c].op = "register_user"
        /\ calls[c].result = OK
        /\ u.email = calls[c].email /\ r.user_id = u.id
        /\ BagIn([mail |-> Mail("activation_request", u.email, r.token),
                  delivered |-> FALSE], sent)

PasswordWasReset(bearer) ==
    \E u \in users, pw \in NewPasswords :
        /\ u.id = int(bearer.sub)
        /\ u.hashed_password = hash_password(pw)

\* C18: a ResetPassword that succeeds leaves the refresh rows as they are,
\* and a RefreshSession presenting a bearer whose unexpired row is stored is
\* accepted by the lookup also after its subject's password was reset.
C18_SessionsKept ==
    [][\A c \in Calls :
         /\ (calls[c].pc = "reset_commit" /\ calls'[c].pc = "done"
               /\ calls'[c].result = OK)
            => UNCHANGED refresh_tokens
         /\ (Enters(c, "refresh_token")
               /\ decode_token(calls'[c].bearer, now, "refresh") = OK
               /\ ~NoValidRow(refresh_tokens, calls'[c].bearer)
               /\ PasswordWasReset(calls'[c].bearer))
            => calls'[c].pc = "refresh_user"]_vars

\* the session opened before the reset was rotated after it
C18_Witness ==
    \E c \in Calls :
        /\ calls[c].pc = "done" /\ calls[c].op = "refresh_token"
        /\ calls[c].result = OK
        /\ calls[c].bearer = create_refresh_token(1, 0)
        /\ PasswordWasReset(calls[c].bearer)
        /\ Successes("reset", 3) = 1
        /\ calls[c].mark = 1
        /\ Successes("refresh", calls[c].bearer) = 1

\* activation token t was stored for the credential with this e-mail (its
\* e-mail is queued in the step that commits the row)
ActivationIssued(t, email) ==
    BagIn(Mail("activation_request", email, t), background_tasks)

\* C19: in every state, failed commits included, a credential that is
\* active has no activation token row left, and a credential whose
\* activation token row is gone is active.
C19_ActivationAtomic ==
    \A u \in users :
        /\ u.is_active => ~\E r \in activation_tokens : r.user_id = u.id
        /\ \A t \in 1..MaxTokens :
              (ActivationIssued(t, u.email)
                 /\ ~\E r \in activation_tokens : r.token = t)
              => u.is_active

\* one activation went through, another failed at its commit
C19_Witness ==
    \E c, d \in Calls, u, v \in users :
        /\ calls[c].pc = "done" /\ calls[c].op = "activate_account"
        /\ calls[c].result = SQLAlchemyError
        /\ ActivationIssued(calls[c].token, u.email) /\ ~u.is_active
        /\ \E r \in activation_tokens : r.token = calls[c].token
        /\ calls[d].pc = "done" /\ calls[d].op = "activate_account"
        /\ calls[d].result = OK
        /\ ActivationIssued(calls[d].token, v.email) /\ v.is_active
        /\ ~\E r \in activation_tokens : r.token = calls[d].token

\* C20: once a Logout presenting R has succeeded, every RefreshSession that
\* presents R afterwards, while R still decodes, ends at once with
\* TokenExpiredError and changes nothing.
C20_Revoked ==
    [][\A c \in Calls :
         (Enters(c, "refresh_token")
            /\ decode_token(calls'[c].bearer, now, "refresh") = OK
            /\ BagIn(calls'[c].bearer, consumed["logout"]))
         => Missed(c, TokenExpiredError)]_vars

\* call c commits an activation that deletes the stored token row of the
\* credential with this id
Activates(c, uid) ==
    /\ calls[c].pc = "activate_commit" /\ calls'[c].pc = "done"
    /\ calls'[c].result = OK
    /\ calls[c].row.user_id = uid
    /\ calls[c].row \in activation_tokens
    /\ calls[c].row \notin activation_tokens'

\* C21: a credential row appears only in the commit of a Register call, and
\* inactive; a stored credential stays stored with its id and e-mail; an
\* active one stays active; an inactive one becomes active only in the commit
\* of an Activate call that deletes a stored token row of that credential,
\* a row the call's lookup found unexpired under the presented value.
C21_ForwardOnly ==
    [][/\ \A u \in users' :
            (~\E v \in users : v.id = u.id)
            => /\ ~u.is_active
               /\ \E c \in Calls : /\ calls[c].pc = "register_commit_user"
                                    /\ calls'[c].user = u
       /\ \A v \in users : \E u \in users' :
            /\ u.id = v.id /\ u.email = v.email
            /\ v.is_active => u.is_active
            /\ (~v.is_active /\ u.is_active)
                  => \E c \in Calls : Activates(c, v.id)
       /\ \A c \in Calls :
            /\ (Enters(c, "activate_account") /\ calls'[c].pc # "done")
               => /\ calls'[c].pc = "activate_user"
                  /\ calls'[c].row \in activation_tokens
                  /\ calls'[c].row.token = calls'[c].token
                  /\ calls'[c].row.expires_at > now
            /\ (calls[c].pc = "activate_user" /\ calls'[c].pc = "activate_commit")
               => /\ calls'[c].row = calls[c].row
                  /\ calls'[c].user.id = calls[c].row.user_id]_vars

\* bob registered and activated, and both credentials had their password
\* reset afterwards and are still active
C21_Witness ==
    /\ Cardinality(users) = 2
    /\ \A u \in users :
          /\ u.is_active
          /\ u.hashed_password = hash_password("N3w!Passw0rd")
    /\ Successes("activation", 2) = 1

\* C22: a ResetPassword with a weak new password ends at once with
\* WeakPassword before any token is looked up, whether or not the presented
\* token is valid, and leaves every table, the e-mail queue and the record
\* of consumed tokens alone; a later ResetPassword presenting the same
\* token, its row still stored unexpired, with an acceptable password is
\* accepted and ends in success.
C22_StrengthFirst ==
    [][\A c \in Calls :
         /\ (Enters(c, "reset_password")
               /\ ~validate_password_strength(calls'[c].password))
            => /\ Missed(c, WeakPassword)
               /\ UNCHANGED <<background_tasks, consumed>>
         /\ (Enters(c, "reset_password")
               /\ validate_password_strength(calls'[c].password)
               /\ RefusedWeak(calls'[c].token)
               /\ ~NoValidRow(password_reset_tokens, calls'[c].token))
            => calls'[c].pc = "reset_user"
         /\ (calls[c].op = "reset_password" /\ calls[c].mark = 1
               /\ calls[c].pc # "done" /\ calls'[c].pc = "done")
            => /\ calls'[c].result = OK
               /\ \E u \in users' :
                     /\ u.id = calls[c].row.user_id
                     /\ u.hashed_password = hash_password(calls[c].password)]_vars

\* the token was refused with a weak password while valid, then accepted
\* with an acceptable one, and that reset went through
C22_Witness ==
    \E c, d \in Calls :
        /\ calls[d].pc = "done" /\ calls[d].op = "reset_password"
        /\ calls[d].result = WeakPassword
        /\ calls[c].pc = "done" /\ calls[c].op = "reset_password"
        /\ calls[c].result = OK /\ calls[c].mark = 1
        /\ calls[c].token = calls[d].token
        /\ Successes("reset", calls[c].token) = 1

\* some session was ended or rotated before
SessionEnded ==
    BagCardinality(consumed["logout"]) + BagCardinality(consumed["refresh"]) > 0

\* C23: a Logout that succeeds removes the row it found for the presented
\* token and nothing else; a RefreshSession that succeeds removes the row it
\* found for the presented token and adds one row, for the new token and the
\* same credential, in the same step; every row with another token value is
\* left as it is; and a RefreshSession presenting a token whose unexpired
\* row is stored is accepted also after other sessions were ended or rotated.
C23_Independent ==
    [][\A c \in Calls :
         /\ (calls[c].pc = "logout_commit" /\ calls'[c].pc = "done"
               /\ calls'[c].result = OK)
            => /\ calls[c].rrow.token = calls[c].bearer
               /\ refresh_tokens' = refresh_tokens \ {calls[c].rrow}
         /\ (calls[c].pc = "refresh_commit" /\ calls'[c].pc = "done"
               /\ calls'[c].result = OK)
            => /\ calls[c].rrow.token = calls[c].bearer
               /\ \E r \in refresh_tokens' \ refresh_tokens :
                     /\ refresh_tokens' =
                           (refresh_tokens \ {calls[c].rrow}) \cup {r}
                     /\ r.token = calls'[c].refresh
                     /\ r.user_id = calls[c].rrow.user_id
         /\ (calls[c].pc \in {"logout_commit", "refresh_commit"}
               /\ calls'[c].pc = "done")
            => \A r \in refresh_tokens :
                  r.token # calls[c].bearer => r \in refresh_tokens'
         /\ (Enters(c, "refresh_token") /\ SessionEnded
               /\ decode_token(calls'[c].bearer, now, "refresh") = OK
               /\ ~NoValidRow(refresh_tokens, calls'[c].bearer))
            => calls'[c].pc = "refresh_user"]_vars

\* alice and bob signed in, alice's session was rotated at a later clock
\* reading: her old row is gone, her new row is stored, and bob's row is
\* stored as his sign-in left it, unexpired
C23_Witness ==
    \E c \in Calls :
        /\ calls[c].pc = "done" /\ calls[c].op = "refresh_token"
        /\ calls[c].result = OK /\ calls[c].bearer.sub = str(1)
        /\ calls[c].refresh # calls[c].bearer
        /\ ~Stored(calls[c].bearer) /\ Stored(calls[c].refresh)
        /\ NewRefreshRow(2, create_refresh_token(2, 0), 2, 0) \in refresh_tokens
        /\ create_refresh_token(2, 0) \in handed_out
        /\ ~NoValidRow(refresh_tokens, create_refresh_token(2, 0))

\* every refresh row belongs to a stored, active credential
Owned(table) ==
    \A r \in table : \E u \in users : u.id = r.user_id /\ u.is_active

\* C24: in every state every refresh row belongs to a stored credential
\* whose is_active is true; a row appears only in the commit of a Login
\* whose user was found active with a matching password, or in the commit
\* of a RefreshSession, for the credential of the row that call's lookup
\* found stored under the presented token.
C24_OwnedByActive ==
    [][/\ Owned(refresh_tokens) /\ Owned(refresh_tokens')
       /\ \A r \in refresh_tokens' \ refresh_tokens : \E c \in Calls :
            /\ calls'[c].pc = "done" /\ calls'[c].result = OK
            /\ r.token = calls'[c].refresh
            /\ \/ /\ calls[c].pc = "login_commit"
                  /\ r.user_id = calls[c].user.id
                  /\ calls[c].user.is_active
                  /\ verify_password(calls[c].password,
                                     calls[c].user.hashed_password)
               \/ /\ calls[c].pc = "refresh_commit"
                  /\ r.user_id = calls[c].rrow.user_id
                  /\ calls[c].rrow.token = calls[c].bearer
       /\ \A c \in Calls :
            (Enters(c, "refresh_token") /\ calls'[c].pc # "done")
            => /\ calls'[c].rrow \in refresh_tokens
               /\ calls'[c].rrow.token = calls'[c].bearer
               /\ calls'[c].rrow.user_id = int(calls'[c].bearer.sub)]_vars

\* bob, inactive, was refused with the right password and owns no row;
\* alice owns a row made by a rotation
C24_Witness ==
    \E c, d \in Calls :
        /\ calls[c].pc = "done" /\ calls[c].op = "login"
        /\ calls[c].email = "bob@example.com"
        /\ calls[c].result = InactiveUserError
        /\ ~\E r \in refresh_tokens : r.user_id = 2
        /\ calls[d].pc = "done" /\ calls[d].op = "refresh_token"
        /\ calls[d].result = OK
        /\ calls[d].refresh # calls[d].bearer
        /\ Stored(calls[d].refresh) /\ ~Stored(calls[d].bearer)

=============================================================================
